---- MODULE Spec2Model ----
(***************************************************************************)
(* Model of datasets/prepare_clinical_embeddings.py: the per-model         *)
(* pipeline download -> extract -> load -> convert -> cleanup, the batch   *)
(* loop of main(), and the file system state (cache directory, archives,   *)
(* scratch extraction directories, output tables) the pipeline acts on.    *)
(***************************************************************************)
EXTENDS Integers, Sequences, FiniteSets, TLC

VARIABLES
    dirs,               \* directories created so far: subset of {"cache", "output"}
    archive,            \* archive[k]: cache_dir / "<k>.tar.gz"
    scratch,            \* scratch[k]: cache_dir / "<k>" (extract_dir)
    output,             \* output[k]: output_dir / "<k>_embeddings.parquet"
    run,                \* number of processes started so far
    mode,               \* "cli": main() is running; "api": prepare_clinical_embeddings was called directly
    pc,                 \* position of the running process
    models_to_download, \* main(): the list the loop iterates over
    i,                  \* main(): 1-based loop index
    model_key,          \* prepare_clinical_embeddings: its argument
    model_path,         \* prepare_clinical_embeddings: result of extract_tar_gz
    wv,                 \* prepare_clinical_embeddings: result of load_word2vec_model
    tried,              \* load_word2vec_model: the parsers called, in call order
    exitCode,           \* exit status of the process (-1: none yet, or killed)
    requested,          \* history: the identifier the process was started with
    log,                \* history: stages the current process ran, as [model, stage, ok, err]
    runStart            \* history: what prepare_clinical_embeddings found on entry

vars == <<dirs, archive, scratch, output, run, mode, pc, models_to_download, i,
          model_key, model_path, wv, tried, exitCode, requested, log, runStart>>

fsVars == <<dirs, archive, scratch, output>>

----------------------------------------------------------------------------
(* Bounds *)

MaxRuns == 2        \* processes started in one behaviour
MaxWords == 2       \* vocabulary size of the mappings the converter is checked on
MaxDim == 2         \* vector size of the mappings the converter is checked on

----------------------------------------------------------------------------
(* The static registry *)

DOWNLOAD_URLS ==
    [k \in {"w2v_100d_oa_cr", "w2v_300d_oa_cr", "w2v_600d_oa_cr",
            "w2v_100d_oa_all", "w2v_300d_oa_all"} |->
        CASE k = "w2v_100d_oa_cr"  -> "6sqzqvcunar39324adgy8qncm7yam6hu.gz"
          [] k = "w2v_300d_oa_cr"  -> "s52hsf65c51e3ro0ssx79e6l25qykt0m.gz"
          [] k = "w2v_600d_oa_cr"  -> "3y4h8iwg1dg2y3dqdwufspsl61usc0xv.gz"
          [] k = "w2v_100d_oa_all" -> "gkyqs962i3i2rw55a821n62ex410bi4a.gz"
          [] k = "w2v_300d_oa_all" -> "9djgjigsve09a7f9vz6ubtsovqwb40xa.gz"]

DEFAULT_MODELS == <<"w2v_100d_oa_cr", "w2v_300d_oa_cr", "w2v_600d_oa_cr">>

\* Identifiers a caller may pass: the registered ones and one that is not.
UnknownKey == "glove_50d"
Keys == DOMAIN DOWNLOAD_URLS \cup {UnknownKey}
NoKey == "None"

----------------------------------------------------------------------------
(* Vocabulary mappings (gensim KeyedVectors): index_to_key lists the words  *)
(* in insertion order, vectors[n] is the vector of the n-th word, and       *)
(* every vector has vector_size components.                                 *)

Words == {"fever", "cough", "rash"}
Floats == {0, 1}

SeqsOf(S, n) == UNION {[1..m -> S] : m \in 0..n}

Injective(s) == \A a, b \in 1..Len(s) : s[a] = s[b] => a = b

AllWVs ==
    UNION {
      UNION {
        { [index_to_key |-> ws, vectors |-> vs, vector_size |-> d] :
              vs \in [1..Len(ws) -> [1..d -> Floats]] }
        : ws \in {s \in SeqsOf(Words, MaxWords) : Injective(s)} }
      : d \in 1..MaxDim }

NoWV == [index_to_key |-> <<>>, vectors |-> <<>>, vector_size |-> 0]

W1 == [index_to_key |-> <<"fever", "cough">>,
       vectors |-> <<(<<1, 0>>), (<<0, 1>>)>>, vector_size |-> 2]
W2 == [index_to_key |-> <<"rash">>, vectors |-> <<(<<1>>)>>, vector_size |-> 1]
W3 == [index_to_key |-> <<"cough", "rash">>,
       vectors |-> <<(<<0>>), (<<1>>)>>, vector_size |-> 1]

\* wv.key_to_index: word -> index
key_to_index(w) ==
    [word \in {w.index_to_key[n] : n \in 1..Len(w.index_to_key)} |->
        CHOOSE n \in 1..Len(w.index_to_key) : w.index_to_key[n] = word]

\* list(wv.key_to_index.keys()): the keys of the dict, in insertion order
keys(w) == w.index_to_key

\* wv[word]
get_vector(w, word) == w.vectors[key_to_index(w)[word]]

----------------------------------------------------------------------------
(* Files. A model file is described by what each of the three gensim        *)
(* parsers makes of it: a failure (the parser raises) or a mapping.         *)

Failed == [ok |-> FALSE, wv |-> NoWV]
Parsed(w) == [ok |-> TRUE, wv |-> w]

Unreadable == [full |-> Failed, kv |-> Failed, w2v |-> Failed]
VectorsOnly(w) == [full |-> Failed, kv |-> Parsed(w), w2v |-> Failed]
LegacyBinary(w) == [full |-> Failed, kv |-> Failed, w2v |-> Parsed(w)]

\* Archive members: a name (a sequence of characters), a type and, for a
\* regular file, its content.
RegularFile(n, d) == [name |-> n, isfile |-> TRUE, data |-> d]
Directory(n) == [name |-> n, isfile |-> FALSE, data |-> Unreadable]

NameBin == <<"w", ".", "b", "i", "n">>
NameDirBin == <<"d", ".", "b", "i", "n">>
NameDir == <<"d">>
NameReadme == <<"r">>
NameVec == <<"v">>
NoPath == <<>>

\* The archives a download URL may serve.
ArchiveLegacy == <<Directory(NameDir), RegularFile(NameBin, LegacyBinary(W1))>>
ArchiveEmpty == <<>>
ArchiveDirOnly == <<Directory(NameDir)>>
ArchiveBinDir == <<Directory(NameDirBin)>>
ArchiveNoBin == <<RegularFile(NameReadme, Unreadable), RegularFile(NameVec, VectorsOnly(W2))>>

Archives == {ArchiveLegacy, ArchiveEmpty, ArchiveDirOnly, ArchiveBinDir, ArchiveNoBin}

\* A file in the cache: complete is FALSE for a file whose writing stopped
\* part-way; members are then the members that were written in full. A
\* download that stops part-way is taken to stop within the first member.
NoFile == [exists |-> FALSE, complete |-> FALSE, members |-> <<>>]
CompleteFile(a) == [exists |-> TRUE, complete |-> TRUE, members |-> a]
TruncatedFile == [exists |-> TRUE, complete |-> FALSE, members |-> <<>>]

\* A directory: the set of its entries.
NoDir == [exists |-> FALSE, entries |-> {}]
EmptyDir == [exists |-> TRUE, entries |-> {}]
Entry(m) == [name |-> m.name, isfile |-> m.isfile, data |-> m.data]

\* An output table.
NoTable == [exists |-> FALSE, complete |-> FALSE, rows |-> <<>>]
PartialTable == [exists |-> TRUE, complete |-> FALSE, rows |-> <<>>]

----------------------------------------------------------------------------
(* download_file *)

\* requests.get(url, stream=True, allow_redirects=True): the server answers
\* with an error status (or the connection fails), or with a body.
Responses(url) ==
    {[status_ok |-> FALSE, body |-> <<>>]}
        \cup {[status_ok |-> TRUE, body |-> a] : a \in Archives}

\* The outcomes of download_file(url, dest_path): raise_for_status raises
\* before dest_path is opened; otherwise dest_path is created and the body
\* is streamed into it, completely or until the connection fails.
download_file(url) ==
    {[ok |-> FALSE, file |-> NoFile]}
        \cup {[ok |-> FALSE, file |-> TruncatedFile]
                        : r \in {x \in Responses(url) : x.status_ok}}
        \cup {[ok |-> TRUE, file |-> CompleteFile(r.body)]
                        : r \in {x \in Responses(url) : x.status_ok}}

----------------------------------------------------------------------------
(* extract_tar_gz *)

\* str.endswith
endswith(name, suffix) ==
    /\ Len(name) >= Len(suffix)
    /\ SubSeq(name, Len(name) - Len(suffix) + 1, Len(name)) = suffix

\* tar.extractall(extract_dir): every member is written into the directory,
\* replacing an entry of the same name.
extractall(dir, members) ==
    [exists |-> TRUE,
     entries |-> {e \in dir.entries : \A n \in 1..Len(members) : members[n].name # e.name}
                     \cup {Entry(members[n]) : n \in 1..Len(members)}]

\* The outcomes of extract_tar_gz(tar_path, extract_dir).
\* A file that is not a whole gzip stream makes tarfile raise after the
\* members it could read. Otherwise the first member named *.bin is
\* returned; failing that, the first regular file extract_dir.iterdir()
\* yields (its order is arbitrary); failing that, FileNotFoundError.
extract_tar_gz(tar, dir) ==
    LET after == extractall(dir, tar.members)
        bins == {n \in 1..Len(tar.members) : endswith(tar.members[n].name, <<".", "b", "i", "n">>)}
        files == {e \in after.entries : e.isfile}
    IN  IF ~tar.complete
        THEN {[ok |-> FALSE, err |-> "ReadError", dir |-> after, path |-> NoPath]}
        ELSE IF bins # {}
        THEN {[ok |-> TRUE, err |-> "", dir |-> after,
               path |-> tar.members[CHOOSE n \in bins : \A m \in bins : n <= m].name]}
        ELSE IF files # {}
        THEN {[ok |-> TRUE, err |-> "", dir |-> after, path |-> e.name] : e \in files}
        ELSE {[ok |-> FALSE, err |-> "FileNotFoundError", dir |-> after, path |-> NoPath]}

----------------------------------------------------------------------------
(* load_word2vec_model *)

\* What is found at a path of a directory.
NoEntry == [name |-> NoPath, isfile |-> FALSE, data |-> Unreadable]
FileAt(dir, path) ==
    IF \E e \in dir.entries : e.name = path
    THEN CHOOSE e \in dir.entries : e.name = path
    ELSE NoEntry

\* The three gensim parsers; each raises on anything that is not a regular
\* file in its format.
Word2Vec_load(f) == IF f.isfile THEN f.data.full ELSE Failed
KeyedVectors_load(f) == IF f.isfile THEN f.data.kv ELSE Failed
load_word2vec_format(f) == IF f.isfile THEN f.data.w2v ELSE Failed

\* (variant: KeyedVectors.load is tried before Word2Vec.load)
load_word2vec_model_swapped(f) ==
    LET r1 == Word2Vec_load(f)
        r2 == KeyedVectors_load(f)
        r3 == load_word2vec_format(f)
    IN  IF r2.ok
        THEN [tried |-> <<"KeyedVectors.load">>, ok |-> TRUE, wv |-> r2.wv]
        ELSE IF r1.ok
        THEN [tried |-> <<"KeyedVectors.load", "Word2Vec.load">>, ok |-> TRUE, wv |-> r1.wv]
        ELSE [tried |-> <<"KeyedVectors.load", "Word2Vec.load", "load_word2vec_format">>,
              ok |-> r3.ok, wv |-> r3.wv]

load_word2vec_model(f) ==
    LET r1 == Word2Vec_load(f)
        r2 == KeyedVectors_load(f)
        r3 == load_word2vec_format(f)
    IN  IF r1.ok
        THEN [tried |-> <<"Word2Vec.load">>, ok |-> TRUE, wv |-> r1.wv]
        ELSE IF r2.ok
        THEN [tried |-> <<"Word2Vec.load", "KeyedVectors.load">>, ok |-> TRUE, wv |-> r2.wv]
        ELSE [tried |-> <<"Word2Vec.load", "KeyedVectors.load", "load_word2vec_format">>,
              ok |-> r3.ok, wv |-> r3.wv]

----------------------------------------------------------------------------
(* embeddings_to_parquet *)

\* (variant: the dimension column holds the number of words)
embeddings_to_parquet_len(w) ==
    LET words == keys(w)
        vectors == [n \in 1..Len(words) |-> get_vector(w, words[n])]
    IN  [exists |-> TRUE, complete |-> TRUE,
         rows |-> [n \in 1..Len(words) |->
                      [word |-> words[n], vector |-> vectors[n],
                       dimension |-> Len(words)]]]

embeddings_to_parquet(w) ==
    LET words == keys(w)
        vectors == [n \in 1..Len(words) |-> get_vector(w, words[n])]
    IN  [exists |-> TRUE, complete |-> TRUE,
         rows |-> [n \in 1..Len(words) |->
                      [word |-> words[n], vector |-> vectors[n],
                       dimension |-> w.vector_size]]]

\* df.to_parquet(output_path, ...): the table is written, or the write fails
\* (the disk fills up) and leaves nothing or a file that is not a whole table.
to_parquet(table) == {table, NoTable, PartialTable}

----------------------------------------------------------------------------
(* The process *)

Stopped == {"idle", "exited", "returned", "raised", "killed"}

NoStart == [key |-> NoKey, output |-> NoTable, archive |-> NoFile, scratch |-> NoDir]

Event(stage, ok, err) == [model |-> model_key, stage |-> stage, ok |-> ok, err |-> err]

Init ==
    /\ dirs = {}
    /\ archive = [k \in Keys |-> NoFile]
    /\ scratch = [k \in Keys |-> NoDir]
    /\ output = [k \in Keys |-> NoTable]
    /\ run = 0
    /\ mode = "none"
    /\ pc = "idle"
    /\ models_to_download = <<>>
    /\ i = 0
    /\ model_key = NoKey
    /\ model_path = NoPath
    /\ wv = NoWV
    /\ tried = <<>>
    /\ exitCode = -1
    /\ requested = NoKey
    /\ log = <<>>
    /\ runStart = NoStart

\* argparse: --model takes choices=list(DOWNLOAD_URLS.keys()), default None
ArgparseAccepts(arg) == arg = NoKey \/ arg \in DOMAIN DOWNLOAD_URLS

\* (variant: the membership test is missing)
KnownModelAlways(k) == TRUE

\* model_key in DOWNLOAD_URLS
KnownModel(k) == k \in DOMAIN DOWNLOAD_URLS

\* (variant: the output check is missing)
output_file_exists_never(k) == FALSE

\* output_file.exists()
output_file_exists(k) == output[k].exists

\* (variant: the cache check is missing)
archive_path_exists_never(k) == FALSE

\* archive_path.exists()
archive_path_exists(k) == archive[k].exists

\* (variant: the exception is caught inside the loop, which goes on)
PropagateAndContinue ==
    /\ pc' = IF mode = "cli" THEN "loop" ELSE "raised"
    /\ exitCode' = exitCode
    /\ i' = IF mode = "cli" THEN i + 1 ELSE i

\* An exception leaves prepare_clinical_embeddings: main() catches it outside
\* the loop, prints it and exits with status 1; a direct caller gets it.
Propagate ==
    /\ pc' = IF mode = "cli" THEN "exited" ELSE "raised"
    /\ exitCode' = IF mode = "cli" THEN 1 ELSE exitCode
    /\ i' = i

\* prepare_clinical_embeddings returns output_file: main() goes on with the
\* next model; a direct caller gets the path.
ReturnOutput ==
    /\ pc' = IF mode = "cli" THEN "loop" ELSE "returned"
    /\ i' = IF mode = "cli" THEN i + 1 ELSE i
    /\ exitCode' = exitCode

\* (variant: the directory is made but not removed first)
mkdir_only(dir) == [exists |-> TRUE, entries |-> dir.entries]

\* if extract_dir.exists(): shutil.rmtree(extract_dir); extract_dir.mkdir(...)
fresh_extract_dir(dir) == EmptyDir

\* (variant: the final removal is missing)
rmtree_skipped(dir) == dir

\* shutil.rmtree(extract_dir)
rmtree(dir) == NoDir

\* main(): parse the arguments and choose the models.
Main(list_models, arg) ==
    /\ pc \in Stopped
    /\ run < MaxRuns
    /\ run' = run + 1
    /\ mode' = "cli"
    /\ requested' = arg
    /\ model_key' = NoKey
    /\ model_path' = NoPath
    /\ wv' = NoWV
    /\ tried' = <<>>
    /\ log' = <<>>
    /\ runStart' = NoStart
    /\ IF ~ArgparseAccepts(arg)
       THEN pc' = "exited" /\ exitCode' = 2 /\ models_to_download' = <<>> /\ i' = 0
       ELSE IF list_models
       THEN pc' = "exited" /\ exitCode' = 0 /\ models_to_download' = <<>> /\ i' = 0
       ELSE /\ models_to_download' = IF arg # NoKey THEN <<arg>> ELSE DEFAULT_MODELS
            /\ i' = 1
            /\ pc' = "loop"
            /\ exitCode' = -1
    /\ UNCHANGED fsVars

\* A direct call of prepare_clinical_embeddings(model_key).
Call(key) ==
    /\ pc \in Stopped
    /\ run < MaxRuns
    /\ run' = run + 1
    /\ mode' = "api"
    /\ requested' = key
    /\ model_key' = key
    /\ model_path' = NoPath
    /\ wv' = NoWV
    /\ tried' = <<>>
    /\ log' = <<>>
    /\ runStart' = NoStart
    /\ models_to_download' = <<>>
    /\ i' = 0
    /\ pc' = "prepare"
    /\ exitCode' = -1
    /\ UNCHANGED fsVars

\* main(): the loop over models_to_download and the normal end.
Loop ==
    /\ pc = "loop"
    /\ IF i <= Len(models_to_download)
       THEN /\ model_key' = models_to_download[i]
            /\ pc' = "prepare"
            /\ exitCode' = exitCode
       ELSE /\ model_key' = model_key
            /\ pc' = "exited"
            /\ exitCode' = 0
    /\ UNCHANGED <<fsVars, run, mode, requested, models_to_download, i, model_path, wv, tried, log, runStart>>

\* prepare_clinical_embeddings: validation, directories, output check.
Prepare ==
    /\ pc = "prepare"
    /\ IF ~KnownModel(model_key)
       THEN /\ log' = Append(log, Event("prepare", FALSE, "ValueError"))
            /\ Propagate
            /\ UNCHANGED <<dirs, runStart>>
       ELSE /\ dirs' = dirs \cup {"cache", "output"}
            /\ runStart' = [key |-> model_key, output |-> output[model_key],
                            archive |-> archive[model_key],
                            scratch |-> scratch[model_key]]
            /\ log' = Append(log, Event("prepare", TRUE, ""))
            /\ IF output_file_exists(model_key)
               THEN ReturnOutput
               ELSE pc' = "fetch" /\ UNCHANGED <<i, exitCode>>
    /\ UNCHANGED <<archive, scratch, output, run, mode, requested, models_to_download,
                   model_key, model_path, wv, tried>>

\* prepare_clinical_embeddings: the archive, downloaded or from the cache.
Fetch ==
    /\ pc = "fetch"
    /\ IF model_key \notin DOMAIN DOWNLOAD_URLS
       THEN /\ log' = Append(log, Event("lookup", FALSE, "KeyError"))
            /\ Propagate
            /\ UNCHANGED archive
       ELSE IF archive_path_exists(model_key)
       THEN /\ log' = Append(log, Event("cached", TRUE, ""))
            /\ pc' = "clear"
            /\ UNCHANGED <<archive, i, exitCode>>
       ELSE \E o \in download_file(DOWNLOAD_URLS[model_key]) :
            /\ archive' = [archive EXCEPT ![model_key] = o.file]
            /\ log' = Append(log, Event("fetch", o.ok, IF o.ok THEN "" ELSE "TransferError"))
            /\ IF o.ok
               THEN pc' = "clear" /\ UNCHANGED <<i, exitCode>>
               ELSE Propagate
    /\ UNCHANGED <<dirs, scratch, output, run, mode, requested, models_to_download,
                   model_key, model_path, wv, tried, runStart>>

\* prepare_clinical_embeddings: the scratch directory is made anew.
Clear ==
    /\ pc = "clear"
    /\ scratch' = [scratch EXCEPT ![model_key] = fresh_extract_dir(scratch[model_key])]
    /\ pc' = "extract"
    /\ UNCHANGED <<dirs, archive, output, run, mode, requested, models_to_download, i,
                   model_key, model_path, wv, tried, exitCode, log, runStart>>

\* prepare_clinical_embeddings: model_path = extract_tar_gz(...)
Extract ==
    /\ pc = "extract"
    /\ \E o \in extract_tar_gz(archive[model_key], scratch[model_key]) :
        /\ scratch' = [scratch EXCEPT ![model_key] = o.dir]
        /\ model_path' = o.path
        /\ log' = Append(log, Event("extract", o.ok, o.err))
        /\ IF o.ok
           THEN pc' = "load" /\ UNCHANGED <<i, exitCode>>
           ELSE Propagate
    /\ UNCHANGED <<dirs, archive, output, run, mode, requested, models_to_download,
                   model_key, wv, tried, runStart>>

\* prepare_clinical_embeddings: wv = load_word2vec_model(model_path)
Load ==
    /\ pc = "load"
    /\ LET r == load_word2vec_model(FileAt(scratch[model_key], model_path))
       IN  /\ tried' = r.tried
           /\ wv' = r.wv
           /\ log' = Append(log, Event("load", r.ok, IF r.ok THEN "" ELSE "LoadError"))
           /\ IF r.ok
              THEN pc' = "convert" /\ UNCHANGED <<i, exitCode>>
              ELSE Propagate
    /\ UNCHANGED <<fsVars, run, mode, requested, models_to_download, model_key, model_path, runStart>>

\* prepare_clinical_embeddings: embeddings_to_parquet(wv, output_file)
Convert ==
    /\ pc = "convert"
    /\ \E t \in to_parquet(embeddings_to_parquet(wv)) :
        /\ output' = [output EXCEPT ![model_key] = t]
        /\ log' = Append(log, Event("convert", t.complete, IF t.complete THEN "" ELSE "OSError"))
        /\ IF t.complete
           THEN pc' = "cleanup" /\ UNCHANGED <<i, exitCode>>
           ELSE Propagate
    /\ UNCHANGED <<dirs, archive, scratch, run, mode, requested, models_to_download,
                   model_key, model_path, wv, tried, runStart>>

\* prepare_clinical_embeddings: the scratch directory is removed and the
\* output path returned.
Cleanup ==
    /\ pc = "cleanup"
    /\ scratch' = [scratch EXCEPT ![model_key] = rmtree(scratch[model_key])]
    /\ log' = Append(log, Event("cleanup", TRUE, ""))
    /\ ReturnOutput
    /\ UNCHANGED <<dirs, archive, output, run, mode, requested, models_to_download,
                   model_key, model_path, wv, tried, runStart>>

\* The process is terminated (an interrupt) during one of the calls that
\* write: the download, the extraction, the table write or the final rmtree
\* (cut short before it removed anything). What the call wrote so far stays,
\* and the memory of the process is gone.
Kill ==
    /\ pc \in {"fetch", "extract", "convert", "cleanup"}
    /\ pc' = "killed"
    /\ archive' \in
         IF pc = "fetch" /\ KnownModel(model_key) /\ ~archive[model_key].exists
         THEN {[archive EXCEPT ![model_key] = o.file] :
                   o \in {x \in download_file(DOWNLOAD_URLS[model_key]) : ~x.ok}}
         ELSE {archive}
    /\ scratch' \in
         IF pc = "extract"
         THEN {[scratch EXCEPT ![model_key] =
                    extractall(scratch[model_key], SubSeq(archive[model_key].members, 1, n))] :
                   n \in 0..Len(archive[model_key].members)}
         ELSE {scratch}
    /\ output' \in
         IF pc = "convert"
         THEN {[output EXCEPT ![model_key] = t] : t \in {NoTable, PartialTable}}
         ELSE {output}
    /\ models_to_download' = <<>>
    /\ i' = 0
    /\ model_key' = NoKey
    /\ model_path' = NoPath
    /\ wv' = NoWV
    /\ tried' = <<>>
    /\ log' = <<>>
    /\ runStart' = NoStart
    /\ mode' = "none"
    /\ requested' = NoKey
    /\ UNCHANGED <<dirs, run, exitCode>>

Next ==
    \/ \E arg \in Keys \cup {NoKey} : Main(FALSE, arg)
    \/ Main(TRUE, NoKey)
    \/ \E key \in Keys : Call(key)
    \/ Loop
    \/ Prepare
    \/ Fetch
    \/ Clear
    \/ Extract
    \/ Load
    \/ Convert
    \/ Cleanup
    \/ Kill

Spec == Init /\ [][Next]_vars

----------------------------------------------------------------------------
(* The Model Loader on its own: the process stands before the call of       *)
(* load_word2vec_model, on any file the three parsers may accept or reject. *)

LoadResults == {Failed} \cup {Parsed(w) : w \in {W1, W2, W3}}
FileDatas == [full : LoadResults, kv : LoadResults, w2v : LoadResults]

FirstKey == DEFAULT_MODELS[1]

\* The state of a process that found member m cached for FirstKey and has
\* extracted it.
Extracted(m, md) ==
    /\ dirs = {"cache", "output"}
    /\ archive = [k \in Keys |-> IF k = FirstKey THEN CompleteFile(<<m>>) ELSE NoFile]
    /\ scratch = [k \in Keys |-> IF k = FirstKey THEN extractall(EmptyDir, <<m>>) ELSE NoDir]
    /\ output = [k \in Keys |-> NoTable]
    /\ run = 1
    /\ mode = md
    /\ models_to_download = IF md = "cli" THEN <<FirstKey>> ELSE <<>>
    /\ i = IF md = "cli" THEN 1 ELSE 0
    /\ model_key = FirstKey
    /\ model_path = m.name
    /\ exitCode = -1
    /\ requested = FirstKey
    /\ runStart = [key |-> FirstKey, output |-> NoTable,
                   archive |-> CompleteFile(<<m>>), scratch |-> NoDir]

InitLoad ==
    \E m \in {RegularFile(NameBin, d) : d \in FileDatas} \cup {Directory(NameBin)},
       md \in {"cli", "api"} :
        /\ Extracted(m, md)
        /\ pc = "load"
        /\ wv = NoWV
        /\ tried = <<>>
        /\ log = <<[model |-> FirstKey, stage |-> "prepare", ok |-> TRUE, err |-> ""],
                   [model |-> FirstKey, stage |-> "cached", ok |-> TRUE, err |-> ""],
                   [model |-> FirstKey, stage |-> "extract", ok |-> TRUE, err |-> ""]>>

NextLoad == Load

SpecLoad == InitLoad /\ [][NextLoad]_vars

(* The Converter on its own: the process stands before the call of          *)
(* embeddings_to_parquet, with any mapping of the bounded sizes loaded.     *)

InitConv ==
    \E w \in AllWVs, md \in {"cli", "api"} :
        /\ Extracted(RegularFile(NameBin, LegacyBinary(w)), md)
        /\ pc = "convert"
        /\ wv = w
        /\ tried = <<"Word2Vec.load", "KeyedVectors.load", "load_word2vec_format">>
        /\ log = <<[model |-> FirstKey, stage |-> "prepare", ok |-> TRUE, err |-> ""],
                   [model |-> FirstKey, stage |-> "cached", ok |-> TRUE, err |-> ""],
                   [model |-> FirstKey, stage |-> "extract", ok |-> TRUE, err |-> ""],
                   [model |-> FirstKey, stage |-> "load", ok |-> TRUE, err |-> ""]>>

NextConv == Convert \/ Cleanup

SpecConv == InitConv /\ [][NextConv]_vars

----------------------------------------------------------------------------
(* Properties *)

\* The events of the pipeline run for model_key, and their stages.
RunLog == SelectSeq(log, LAMBDA e : e.model = model_key)
Stages(events) == [n \in 1..Len(events) |-> events[n].stage]
Invoked(stage) == \E n \in 1..Len(RunLog) : RunLog[n].stage = stage
Succeeded(stage) == \E n \in 1..Len(RunLog) : RunLog[n].stage = stage /\ RunLog[n].ok

\* runStart describes the pipeline run for model_key.
InRun == model_key # NoKey /\ runStart.key = model_key

\* That run is over: it returned or raised.
RunEnded == InRun /\ pc \in {"loop", "returned", "raised", "exited"}

IsPrefix(s, t) == Len(s) <= Len(t) /\ s = SubSeq(t, 1, Len(s))

RegularMembers(a) == {n \in 1..Len(a) : a[n].isfile}

\* C1: a pipeline run that finds the Output Table present at its start
\* (as after a successful run for the same identifier) runs no Fetcher,
\* Extractor, Model Loader or Converter step: it returns at the output check
\* and leaves the Output Table, the Archive and the scratch directory as it
\* found them.
C1_Idempotence ==
    (InRun /\ runStart.output.exists) =>
        /\ pc \in {"loop", "returned", "exited"}
        /\ Stages(RunLog) = <<"prepare">>
        /\ output[model_key] = runStart.output
        /\ archive[model_key] = runStart.archive
        /\ scratch[model_key] = runStart.scratch

\* C1 witness: a second process returned at once for a model whose table a
\* successful run had written in full.
C1_Witness ==
    /\ run = 2
    /\ RunEnded
    /\ runStart.output.complete
    /\ Len(runStart.output.rows) > 0
    /\ output[model_key] = runStart.output
    /\ Stages(RunLog) = <<"prepare">>

\* C2 as stated (for a cached Archive that is a whole download): a run that
\* starts with the Output Table absent and the Archive cached never invokes
\* the Fetcher, invokes Extractor, Model Loader and Converter, in that
\* order, and ends with the Archive still cached.
C2_Original ==
    (RunEnded /\ ~runStart.output.exists /\ runStart.archive.complete) =>
        /\ ~Invoked("fetch")
        /\ IsPrefix(<<"prepare", "cached", "extract", "load", "convert">>, Stages(RunLog))
        /\ archive[model_key].exists

\* C2 as amended: in a run that starts with the Output Table absent and the
\* Archive cached, the Fetcher is never invoked and the Archive stays as it
\* was; the stages run are Extractor, Model Loader, Converter in that order,
\* each only after the one before it succeeded; a run that has ended ran the
\* Extractor, ran the Model Loader exactly if the Extractor succeeded, and
\* ran the Converter exactly if the Model Loader succeeded.
C2_CacheReuse ==
    (InRun /\ ~runStart.output.exists /\ runStart.archive.exists) =>
        /\ ~Invoked("fetch")
        /\ archive[model_key] = runStart.archive
        /\ IsPrefix(Stages(RunLog), <<"prepare", "cached", "extract", "load", "convert", "cleanup">>)
        /\ \A n \in 1..(Len(RunLog) - 1) : RunLog[n].ok
        /\ RunEnded =>
            /\ Invoked("extract")
            /\ Invoked("load") <=> Succeeded("extract")
            /\ Invoked("convert") <=> Succeeded("load")

\* C2 witness: a run on a cached Archive went through Extractor, Model
\* Loader and Converter and returned, the Archive still cached.
C2_Witness ==
    /\ RunEnded
    /\ ~runStart.output.exists
    /\ runStart.archive.exists
    /\ Stages(RunLog) = <<"prepare", "cached", "extract", "load", "convert", "cleanup">>
    /\ archive[model_key] = runStart.archive
    /\ output[model_key].complete

\* C3: when a model of a batch fails, main() exits with status 1, the
\* failure is the last thing the process did, no stage of any later model
\* of the list was started, and every earlier model's Output Table is on
\* disk; and main() exits with status 1 only when a model failed.
C3_BatchAbort ==
    (mode = "cli" /\ pc = "exited") =>
        /\ (exitCode = 1) <=> (\E n \in 1..Len(log) : ~log[n].ok)
        /\ exitCode = 1 =>
            /\ ~log[Len(log)].ok
            /\ \A n \in 1..(Len(log) - 1) : log[n].ok
            /\ log[Len(log)].model = models_to_download[i]
            /\ \A j \in (i + 1)..Len(models_to_download) :
                   \A n \in 1..Len(log) : log[n].model # models_to_download[j]
            /\ \A j \in 1..(i - 1) : output[models_to_download[j]].exists

\* C3 witness: the default batch, the first model converted, the second
\* model's download failed.
C3_Witness ==
    /\ mode = "cli"
    /\ pc = "exited"
    /\ exitCode = 1
    /\ models_to_download = DEFAULT_MODELS
    /\ i = 2
    /\ \E n \in 1..Len(log) :
           log[n] = [model |-> DEFAULT_MODELS[1], stage |-> "convert", ok |-> TRUE, err |-> ""]
    /\ log[Len(log)] = [model |-> DEFAULT_MODELS[2], stage |-> "fetch", ok |-> FALSE,
                        err |-> "TransferError"]
    /\ output[DEFAULT_MODELS[1]].complete
    /\ \A n \in 1..Len(log) : log[n].model # DEFAULT_MODELS[3]

\* C4: a process started with an identifier that is not in DOWNLOAD_URLS
\* fails (argparse exits with status 2; prepare_clinical_embeddings raises
\* ValueError) without running any stage, and no step of it creates a
\* directory, an archive, a scratch directory or an Output Table.
C4_UnknownRejected ==
    /\ [](requested \notin DOMAIN DOWNLOAD_URLS \cup {NoKey} =>
            /\ pc \in {"prepare", "raised", "exited"}
            /\ pc = "exited" => mode = "cli" /\ exitCode = 2 /\ log = <<>>
            /\ pc = "raised" =>
                  log = <<[model |-> requested, stage |-> "prepare", ok |-> FALSE,
                           err |-> "ValueError"]>>
            /\ pc = "prepare" => log = <<>>)
    /\ [][requested' \notin DOMAIN DOWNLOAD_URLS \cup {NoKey} => UNCHANGED fsVars]_vars

\* C4 witness: a direct call with an unknown identifier raised, in a second
\* process, nothing on disk but what the first process left.
C4_Witness ==
    /\ requested = UnknownKey
    /\ mode = "api"
    /\ pc = "raised"
    /\ run = 2
    /\ log = <<[model |-> UnknownKey, stage |-> "prepare", ok |-> FALSE, err |-> "ValueError"]>>

\* C5 as stated: whenever the Extractor ran on an archive (a whole download)
\* without a regular-file member, it failed with "No model file found"
\* (FileNotFoundError), the Model Loader was not run for that model, and no
\* Output Table exists for it.
C5_EmptyArchiveRejected ==
    \A n \in 1..Len(log) :
        (/\ log[n].stage = "extract"
         /\ archive[log[n].model].complete
         /\ RegularMembers(archive[log[n].model].members) = {}) =>
            /\ ~log[n].ok
            /\ log[n].err = "FileNotFoundError"
            /\ \A m \in 1..Len(log) : ~(log[m].model = log[n].model /\ log[m].stage = "load")
            /\ ~output[log[n].model].exists

C8_RowCount ==
    (InRun /\ Succeeded("convert")) =>
        LET t == output[model_key]
        IN  /\ t.exists
            /\ Len(t.rows) = Len(wv.index_to_key)
            /\ Len(t.rows) = Cardinality({t.rows[n].word : n \in 1..Len(t.rows)})
            /\ \A n \in 1..Len(t.rows) :
                /\ t.rows[n].word = wv.index_to_key[n]
                /\ t.rows[n].vector = wv.vectors[n]
                /\ Len(t.rows[n].vector) = t.rows[n].dimension
                /\ t.rows[n].dimension = wv.vector_size

\* C8 witness: a mapping of two words whose vector size differs from its
\* number of words was converted.
C8_Witness ==
    /\ InRun
    /\ Succeeded("convert")
    /\ Len(wv.index_to_key) = 2
    /\ wv.vector_size = 1
    /\ Len(output[model_key].rows) = 2

\* C9: when extraction starts the scratch directory of the model exists and
\* is empty, whatever earlier runs left in it; and the file handed to the
\* Model Loader, like everything in the scratch directory then, is a member
\* of the archive the current run extracted.
C9_FreshScratch ==
    /\ pc = "extract" => scratch[model_key] = EmptyDir
    /\ pc = "load" =>
         /\ \A e \in scratch[model_key].entries :
                \E n \in 1..Len(archive[model_key].members) :
                    e = Entry(archive[model_key].members[n])
         /\ \E e \in scratch[model_key].entries : e.name = model_path

\* C9 witness: extraction is about to start on an empty scratch directory
\* in a run that found files of an earlier run in it.
C9_Witness ==
    /\ pc = "extract"
    /\ InRun
    /\ runStart.scratch.entries # {}
    /\ scratch[model_key] = EmptyDir

\* C10 as stated: whenever a run took the Archive from the cache instead of
\* downloading it, the cached file is the whole result of a download.
C10_CachedArchiveComplete ==
    \A n \in 1..Len(log) :
        log[n].stage = "cached" => archive[log[n].model].complete

====
